---- MODULE Spec2Model ----
(***************************************************************************)
(* State-machine model of the video preparation pipeline:                  *)
(*   make_ffwd_concat_video  (src/video_prep/ffwd_video_maker.py)          *)
(*   join_videos             (src/video_prep/joiner.py)                    *)
(*   process_video           (src/video_prep/handler.py)                   *)
(*   make_montage            (src/video_prep/montager.py)                  *)
(*   _process_video          (src/handler.py)                              *)
(* and of the ffmpeg wrappers they call (src/video_prep/ffmpeg_utils.py).  *)
(*                                                                         *)
(* Durations are fixed-point: one second is TicksPerSecond ticks, so that  *)
(* tenths of a second, halves of a second and the quotients by the rates   *)
(* 2, 4, ..., 64 are all exact.  Padded durations are whole seconds, as in *)
(* the code (int(math.ceil(...))).  A file is <<directory, name, number>>. *)
(***************************************************************************)
EXTENDS Integers, Sequences, FiniteSets, TLC

\* ------------------------------------------------------------------ bounds
\* Longest input list handed to join_videos.
MaxVideos == 2
\* How far (in ticks) a re-probed sped-up segment may exceed source/rate.
ProbeJitter == 16
\* Cap on the doubling counter (never reached by the sources modelled).
MaxDoublings == 5
\* Longest batch of SQS records handed to handler.
MaxRecords == 2

TicksPerSecond == 10 * 64
Tenth == TicksPerSecond \div 10

\* Exit statuses of an ffmpeg/ffprobe process: 0, or abnormal.
ReturnCodes == {0, 1}

\* probe_info.duration of the sources handed to make_ffwd_concat_video.
PyramidSources == {5 * Tenth, 10 * Tenth, 15 * Tenth, 93 * Tenth, 200 * Tenth}
\* padding_buffer values: 0 s, the default 1 s, and a non-integer 0.5 s that
\* VideoProcessingConfig.from_event passes through unchecked.
PaddingBuffers == {0, TicksPerSecond, TicksPerSecond \div 2}
\* blank_audio_duration values: the default 5.0 s, and 0.5 s, which
\* VideoProcessingConfig.from_event passes through unchecked as well.
BlankAudioDurations == {5 * TicksPerSecond, TicksPerSecond \div 2}
\* Sources of a process_video run and durations of join_videos inputs.
ShortSources == {5 * Tenth, 15 * Tenth, 23 * Tenth}
\* padding_buffer of join_videos (declared int, no event path leads to it).
IntegerBuffers == {0, TicksPerSecond}

Entries == {"make_ffwd_concat_video", "join_videos", "process_video", "_process_video",
            "make_montage", "process_chapters_only", "to_dict", "handler"}

\* Bodies of SQS records: text that is not JSON; JSON that is a non-empty
\* string or null instead of an object; objects lacking docId or versionId;
\* an object whose docId is empty; a complete message.
RecordBodies ==
  {[json |-> FALSE, object |-> FALSE, truthy |-> FALSE, keys |-> {}, filled |-> {}],
   [json |-> TRUE, object |-> FALSE, truthy |-> TRUE, keys |-> {}, filled |-> {}],
   [json |-> TRUE, object |-> FALSE, truthy |-> FALSE, keys |-> {}, filled |-> {}],
   [json |-> TRUE, object |-> TRUE, truthy |-> TRUE,
    keys |-> {"versionId", "s3Key"}, filled |-> {"versionId", "s3Key"}],
   [json |-> TRUE, object |-> TRUE, truthy |-> TRUE,
    keys |-> {"docId", "s3Key"}, filled |-> {"docId", "s3Key"}],
   [json |-> TRUE, object |-> TRUE, truthy |-> TRUE,
    keys |-> {"docId", "versionId", "s3Key"}, filled |-> {"versionId", "s3Key"}],
   [json |-> TRUE, object |-> TRUE, truthy |-> TRUE,
    keys |-> {"docId", "versionId", "s3Key"}, filled |-> {"docId", "versionId", "s3Key"}]}

\* How a call of _process_video ends: it returns the output prefix, or the
\* download / upload raises ClientError, or the pipeline raises.
ProcessVideoOutcomes == {"returned", "ClientError", "CalledProcessError"}

\* thumbnail_width: int = 30
DefaultThumbWidth == 30
\* MAX_JPEG_DIMENSION
MaxJpegDimension == 65500
\* (width, height) of the probed video stream.
FrameSizes == {<<16, 9>>}

\* Arguments of make_montage when it is called directly: durations, stream
\* sizes (landscape, 2:1, portrait), thumb_width and max_jpeg_dimension.
MontageSources == {5 * Tenth, 15 * Tenth, 30 * Tenth, 42 * Tenth}
MontageFrameSizes == {<<16, 9>>, <<2, 1>>, <<9, 16>>}
WideThumbWidth == 40000
SmallJpegDimension == 100
ThumbWidths == {DefaultThumbWidth, WideThumbWidth}
JpegDimensions == {MaxJpegDimension, SmallJpegDimension}

\* Chapter files: lines <<"START", <<HH, MM, SS, ffffff>>>> and <<"TITLE", text>>:
\* a well-formed file of two pairs, one whose last pair has lost its TITLE
\* line, and an empty file.
ChapterFiles ==
  { << <<"START", <<0, 13, 0, 150000>> >>, <<"TITLE", "Sycamore Grove">>,
       <<"START", <<1, 2, 3, 500000>> >>, <<"TITLE", "Bachelor of the Year">> >>,
    << <<"START", <<0, 13, 0, 150000>> >>, <<"TITLE", "Sycamore Grove">>,
       <<"START", <<1, 2, 3, 500000>> >> >>,
    << >> }

\* config.chapter_file: not configured, or configured with the file's lines.
ChapterConfigs ==
  {[configured |-> FALSE, lines |-> <<>>]}
    \cup {[configured |-> TRUE, lines |-> l] : l \in ChapterFiles}

RECURSIVE SeqsUpTo(_, _)
\* All sequences over S of length 0..n.
SeqsUpTo(S, n) ==
  IF n = 0 THEN {<<>>}
  ELSE LET shorter == SeqsUpTo(S, n - 1)
       IN shorter \cup {Append(q, x) : q \in shorter, x \in S}

\* ------------------------------------------------------------ pure helpers
RECURSIVE SeqSum(_)
SeqSum(s) == IF s = <<>> THEN 0 ELSE Head(s) + SeqSum(Tail(s))

RECURSIVE Pow2(_)
Pow2(n) == IF n = 0 THEN 1 ELSE 2 * Pow2(n - 1)

\* math.ceil of a non-negative duration, in whole seconds.
CeilSeconds(x) == (x + TicksPerSecond - 1) \div TicksPerSecond

\* math.floor of a non-negative duration, in whole seconds.
FloorSeconds(x) == x \div TicksPerSecond

FitDurationFloor(d, b) == FloorSeconds(d + b)
\* int(math.ceil(duration + padding_buffer))
FitDuration(d, b) == CeilSeconds(d + b)

WhileConditionAtLeast(d) == d >= TicksPerSecond
WhileConditionNextEstimate(d) == d > 2 * TicksPerSecond
WhileConditionAlways(d) == d >= 0
\* while ffwd_duration > 1
WhileCondition(d) == d > TicksPerSecond

NextRateLinear(dc) == 2 * dc
\* rate = 2 ** doubling_count
NextRate(dc) == Pow2(dc)

TotalDurationLast(pd) == IF pd = <<>> THEN 0 ELSE pd[Len(pd)]
\* total_duration = sum(padded_durations)
TotalDuration(pd) == SeqSum(pd)

\* end_ms = int(duration * 1000), the END of the injected chapter (TIMEBASE 1/1000)
EndMs(duration) == duration * 1000

RunFfmpegIgnoresStatus(rc) == FALSE
\* run_ffmpeg: if result.returncode != 0: raise CalledProcessError
RunFfmpegRaises(rc) == rc # 0

Max(a, b) == IF a >= b THEN a ELSE b
Min(a, b) == IF a <= b THEN a ELSE b

\* Python's round(n / d) for n >= 0, d > 0: to nearest, ties to even.
RoundHalfEven(n, d) ==
  LET q == n \div d
      r == n % d
  IN IF 2 * r < d THEN q
     ELSE IF 2 * r > d THEN q + 1
     ELSE IF q % 2 = 0 THEN q ELSE q + 1

\* thumb_height = max(1, round(thumb_width * (height / width)))
ThumbHeight(tw, size) == Max(1, RoundHalfEven(tw * size[2], size[1]))

\* thumb_count = min(total_seconds, (max // thumb_width) * (max // thumb_height))
ThumbCount(total, tw, th, maxdim) == Min(total, (maxdim \div tw) * (maxdim \div th))

\* stacks_per_row = max(1, math.floor(thumb_width / thumb_height))
StacksPerRow(tw, th) == Max(1, tw \div th)

\* int(math.ceil(math.sqrt(thumb_count / stacks_per_row)))
Columns(tc, spr) == CHOOSE k \in 0..tc : k * k * spr >= tc /\ \A j \in 0..(k - 1) : j * j * spr < tc

RowsNoSpare(tc, c) == (tc + c - 1) \div c
RowsFloor(tc, c) == tc \div c
\* rows = int(math.ceil(thumb_count / cols)) + 1, for cols > 0
Rows(tc, c) == ((tc + c - 1) \div c) + 1

\* sec = int(round((i / thumb_count) * total_seconds)) if thumb_count else 0
FrameSec(i, tc, total) == IF tc = 0 THEN 0 ELSE RoundHalfEven(i * total, tc)

StartSecondsNoSeconds(t) == <<t[1] * 3600 + t[2] * 60, t[4]>>
\* seconds = hour * 3600 + minute * 60 + second + microsecond / 1_000_000,
\* kept as <<whole seconds, millionths of a second>> (microsecond < 1000000).
StartSeconds(t) == <<t[1] * 3600 + t[2] * 60 + t[3], t[4]>>

RECURSIVE ParseChapters(_)
\* parse_chapters: pairs of lines are read until a readline returns nothing.
ParseChapters(lines) ==
  IF Len(lines) < 2 THEN <<>>
  ELSE <<[title |-> lines[2][2], start_seconds |-> StartSeconds(lines[1][2])]>>
         \o ParseChapters(SubSeq(lines, 3, Len(lines)))

ToDictWithNulls(m) ==
  [keys |-> {"I", "V", "M", "C"},
   V |-> m.video, M |-> m.montage,
   C |-> [i \in 1..Len(m.chapters) |-> <<m.chapters[i].title, m.chapters[i].start_seconds>>]]
\* VideoMetadata.to_dict: I always, V / M / C when the part is truthy.
ToDict(m) ==
  [keys |-> {"I"} \cup (IF m.has_video THEN {"V"} ELSE {})
                  \cup (IF m.has_montage THEN {"M"} ELSE {})
                  \cup (IF m.has_chapters /\ m.chapters # <<>> THEN {"C"} ELSE {}),
   V |-> m.video, M |-> m.montage,
   C |-> [i \in 1..Len(m.chapters) |-> <<m.chapters[i].title, m.chapters[i].start_seconds>>]]

TempoKeepsLength(len, n) == len
\* "atempo=2.0" chained n times: every application halves the length.
RECURSIVE Tempo(_, _)
Tempo(len, n) == IF n = 0 THEN len ELSE Tempo(len \div 2, n - 1)

\* Length of the padded audio of segment i (doubling count i - 1): the audio
\* of the source, as long as its video, sped up, then the silence clip.
PaddedAudioLength(src, i, blank) == Tempo(src, i - 1) + blank

\* concat demuxer "outpoint trim": the file is cut at trim seconds, a file
\* that ends earlier contributes all it has.
Outpoint(len, trim) == Min(len, trim * TicksPerSecond)

\* ffprobe of a freshly encoded rate-r copy: source/r, or slightly longer.
ProbeOutcomes(src, r) == {src \div r, (src \div r) + ProbeJitter}

\* ffprobe of the normalized copy: the source's duration, or slightly longer.
NormalizedOutcomes(src) == {src, src + ProbeJitter}

\* ------------------------------------------------------------------- state
VARIABLES
  entry,             \* the entry point this run was started through
  pc,                \* the call site about to execute; "done" or "raised" at the end
  sub,               \* position inside a two-invocation wrapper (0 or 1)
  error,             \* the exception that ended the run, or "none"
  padding_buffer,    \* ticks
  blank_audio_duration, \* length of the silence clip, ticks
  audio_track,       \* lengths (ticks) of the pieces of final_audio.mp4, one per segment
  video_duration,    \* probe_info.duration, ticks
  src_duration,      \* duration of the file handed to process_video, ticks
  rates, durations, padded_durations,
  doubling_count, rate, ffwd_duration,
  exact,             \* every re-probe so far returned exactly source/rate
  fit_duration,      \* fit_duration / ffwd_fit_duration / total_duration of the current pad
  meta_end,          \* END written into the FFMETADATA file of the current pad
  calls,             \* every ffmpeg/ffprobe invocation issued, in order
  fs,                \* files that exist
  created,           \* every file ever created
  dirs,              \* directories that exist
  stamps,            \* chapter-trick stamps that were muxed: [file, end_ms, audio]
  returned,          \* make_ffwd_concat_video returned
  segment_data,      \* the VideoSegmentData it returned
  video_files,       \* join_videos: the inputs, each given by its probed duration
  join_idx,          \* join_videos: 1-based index of the input being padded
  join_returned,     \* join_videos returned
  join_result,       \* the list it returned
  chapter_file,      \* config.chapter_file / chapterFile of the message
  metadata,          \* process_video: the VideoMetadata being populated
  avd,               \* every content written to the .avd file, in order
  pv_returned,       \* process_video / process_chapters_only returned
  result_dict,       \* the dicts VideoMetadata.to_dict returned to a direct caller
  frame_size,        \* probe_info.width, probe_info.height
  thumb_width, max_jpeg_dimension,
  total_seconds, thumb_height, thumb_count, cols, rows,
  mt_i,              \* make_montage: the sampling index i
  thumbnails,        \* make_montage: the sampling indices whose thumbnail was kept
  canvas,            \* make_montage: the pastes, [index, col, row] per thumbnail
  mt_returned,       \* make_montage returned its MontageData
  records,           \* handler: the bodies of event["Records"]; messageId = position
  convex_url,        \* CONVEX_URL is set
  rec_idx,           \* handler: position of the record being processed
  exc,               \* handler: the exception caught for the current record, or "none"
  attempts,          \* handler: [rec, raised] for every record whose try block ended
  batch_item_failures, \* handler: the messageIds appended so far
  reports,           \* every report_to_convex call: [rec, status, delivered]
  handler_returned   \* handler returned {"batchItemFailures": ...}

sqsVars == <<records, convex_url, rec_idx, exc, attempts, batch_item_failures, reports,
            handler_returned>>
cfgVars == <<entry, padding_buffer, blank_audio_duration, video_files, chapter_file, frame_size, thumb_width,
             max_jpeg_dimension>>
pvVars == <<metadata, avd, pv_returned, result_dict>>
mtVars == <<total_seconds, thumb_height, thumb_count, cols, rows, mt_i, thumbnails, canvas,
            mt_returned>>
joinVars == <<join_idx, join_returned, join_result>>
pyrVars == <<video_duration, src_duration, rates, durations, padded_durations,
             doubling_count, rate, ffwd_duration, exact>>
outVars == <<returned, segment_data>>
padVars == <<fit_duration, meta_end>>
vars == <<entry, pc, sub, error, padding_buffer, blank_audio_duration, audio_track, video_duration, src_duration, rates, durations,
          padded_durations, doubling_count, rate, ffwd_duration, exact, fit_duration,
          meta_end, calls, fs, created, dirs, stamps, returned, segment_data,
          video_files, join_idx, join_returned, join_result, chapter_file, metadata,
          avd, pv_returned, result_dict, frame_size, thumb_width, max_jpeg_dimension,
          total_seconds, thumb_height, thumb_count, cols, rows, mt_i, thumbnails, canvas,
          mt_returned, records, convex_url, rec_idx, exc, attempts, batch_item_failures,
          reports, handler_returned>>

NoSegments == [R |-> <<>>, D |-> <<>>, X |-> <<>>]
NoMontage == [W |-> 0, H |-> 0, B |-> 0, N |-> 0]

\* VideoMetadata(video_id=...): every optional part is None.
NewMetadata ==
  [has_video |-> FALSE, video |-> NoSegments,
   has_montage |-> FALSE, montage |-> NoMontage,
   has_chapters |-> FALSE, chapters |-> <<>>]

\* The source video and the chapter file of the run.
InputVideo ==
  IF entry = "_process_video" THEN <<"lambda", "input", 0>> ELSE <<"input", "video", 0>>
InputChapters ==
  IF entry = "_process_video" THEN <<"lambda", "chapters", 0>> ELSE <<"input", "chapters", 0>>

\* VideoMetadata objects handed to to_dict directly: every combination of a
\* present or absent pyramid, montage and chapter list (None, empty, parsed).
SegmentInputs ==
  {[R |-> <<1>>, D |-> <<5 * Tenth>>, X |-> <<2>>],
   [R |-> <<1, 2>>, D |-> <<15 * Tenth, 7 * Tenth>>, X |-> <<3, 2>>]}
MontageInputs == {[W |-> DefaultThumbWidth, H |-> 17, B |-> 1, N |-> 1]}
MetadataInputs ==
  {[has_video |-> hv, video |-> v, has_montage |-> hm, montage |-> m,
    has_chapters |-> hc, chapters |-> c] :
      hv \in BOOLEAN, v \in SegmentInputs \cup {NoSegments},
      hm \in BOOLEAN, m \in MontageInputs \cup {NoMontage},
      hc \in BOOLEAN, c \in {ParseChapters(l) : l \in ChapterFiles}}

\* A field that is None carries no value.
MetadataWellFormed(m) ==
  /\ (m.has_video <=> m.video # NoSegments)
  /\ (m.has_montage <=> m.montage # NoMontage)
  /\ (~m.has_chapters => m.chapters = <<>>)

StartPc(e) ==
  CASE e = "make_ffwd_concat_video" -> "blank_audio"
    [] e = "join_videos" -> "join_check"
    [] e = "process_video" -> "pv_check_deps"
    [] e = "_process_video" -> "sqs_mkdtemp"
    [] e = "make_montage" -> "mt_layout"
    [] e = "process_chapters_only" -> "pco_mkdir"
    [] e = "to_dict" -> "to_dict"
    [] e = "handler" -> "h_next"

Init ==
  /\ entry \in Entries
  /\ pc = StartPc(entry)
  /\ sub = 0
  /\ error = "none"
  /\ padding_buffer \in
       (CASE entry = "join_videos" -> IntegerBuffers
          [] entry \in {"make_ffwd_concat_video", "process_video"} -> PaddingBuffers
          [] OTHER -> {TicksPerSecond})
  /\ blank_audio_duration \in
       (IF entry \in {"make_ffwd_concat_video", "process_video"}
          THEN BlankAudioDurations ELSE {5 * TicksPerSecond})
  /\ audio_track = <<>>
  /\ video_duration \in
       (CASE entry = "make_ffwd_concat_video" -> PyramidSources
          [] entry = "make_montage" -> MontageSources
          [] OTHER -> {0})
  /\ src_duration \in
       (IF entry \in {"process_video", "_process_video"} THEN ShortSources ELSE {0})
  /\ chapter_file \in
       (CASE entry \in {"process_video", "_process_video"} -> ChapterConfigs
          [] entry = "process_chapters_only" ->
               {[configured |-> TRUE, lines |-> l] : l \in ChapterFiles}
          [] OTHER -> {[configured |-> FALSE, lines |-> <<>>]})
  /\ frame_size \in (IF entry = "make_montage" THEN MontageFrameSizes ELSE FrameSizes)
  /\ thumb_width \in (IF entry = "make_montage" THEN ThumbWidths ELSE {DefaultThumbWidth})
  /\ max_jpeg_dimension \in
       (IF entry = "make_montage" THEN JpegDimensions ELSE {MaxJpegDimension})
  /\ metadata \in
       (IF entry = "to_dict" THEN {m \in MetadataInputs : MetadataWellFormed(m)}
                             ELSE {NewMetadata})
  /\ avd = <<>> /\ pv_returned = FALSE /\ result_dict = <<>>
  /\ total_seconds = 0 /\ thumb_height = 0 /\ thumb_count = 0
  /\ cols = 0 /\ rows = 0 /\ mt_i = 0 /\ thumbnails = <<>>
  /\ canvas = {} /\ mt_returned = FALSE
  /\ records \in (IF entry = "handler" THEN SeqsUpTo(RecordBodies, MaxRecords) ELSE {<<>>})
  /\ convex_url \in (IF entry = "handler" THEN BOOLEAN ELSE {FALSE})
  /\ rec_idx = 0 /\ exc = "none" /\ attempts = <<>> /\ batch_item_failures = <<>>
  /\ reports = <<>> /\ handler_returned = FALSE
  /\ video_files \in
       (IF entry = "join_videos" THEN SeqsUpTo(ShortSources, MaxVideos) ELSE {<<>>})
  /\ join_idx = 0 /\ join_returned = FALSE /\ join_result = <<>>
  /\ rates = <<>> /\ durations = <<>> /\ padded_durations = <<>>
  /\ doubling_count = 0 /\ rate = 0 /\ ffwd_duration = 0
  /\ exact = TRUE
  /\ fit_duration = 0 /\ meta_end = 0
  /\ calls = <<>>
  /\ fs \in
       (CASE entry = "process_video" ->
               {x \cup y : x \in SUBSET {InputVideo},
                           y \in (IF chapter_file.configured
                                    THEN SUBSET {InputChapters} ELSE {{}})}
          [] entry = "process_chapters_only" -> SUBSET {InputChapters}
          [] OTHER -> {{}})
  /\ created = {}
  /\ dirs = (IF entry \in {"make_ffwd_concat_video", "join_videos", "make_montage"}
              THEN {"systmp", "work"} ELSE {"systmp"})
  /\ stamps = {}
  /\ returned = FALSE
  /\ segment_data = NoSegments

\* ------------------------------------------------- calls and their failure
\* video_src of make_ffwd_concat_video: process_video hands it the normalized copy.
VideoSrc ==
  IF entry = "make_ffwd_concat_video" THEN InputVideo ELSE <<"work", "normalized", 0>>

CallSourcePrevious ==
  CASE pc = "raw_audio" -> VideoSrc
    [] pc = "ffwd_video" ->
         IF doubling_count = 1 THEN VideoSrc ELSE <<"work", "ffwd_video", rate \div 2>>
    [] pc = "ffwd_audio" ->
         IF doubling_count = 1 THEN <<"work", "src_audio", 0>>
         ELSE <<"work", "ffwd_audio", rate \div 2>>
    [] OTHER -> <<"none", "none", 0>>
\* The input file of the calls that take the source or its audio: extract_audio
\* and create_fast_forward_video read video_src, create_fast_forward_audio
\* reads raw_audio.
CallSource ==
  CASE pc \in {"raw_audio", "ffwd_video"} -> VideoSrc
    [] pc = "ffwd_audio" -> <<"work", "src_audio", 0>>
    [] OTHER -> <<"none", "none", 0>>

Call(op, arg, flag, rc) ==
  [op |-> op, site |-> pc, src |-> CallSource, arg |-> arg, flag |-> flag, rc |-> rc]

\* Directories removed by the with/finally blocks an exception passes through
\* ("frames" is the frames directory make_montage creates inside the work dir).
ScopedDirs ==
  CASE entry = "process_video" -> {"work", "frames"}
    [] entry = "_process_video" -> {"work", "frames", "lambda", "export"}
    [] OTHER -> {}

\* An exception leaves the entry point; `files` is what exists when it is raised.
Raise(err, files) ==
  /\ pc' = "raised"
  /\ error' = err
  /\ sub' = 0
  /\ fs' = {f \in files : f[1] \notin ScopedDirs}
  /\ dirs' = dirs \ ScopedDirs

\* One ffmpeg invocation with no result: on a non-zero status run_ffmpeg raises
\* (the destination may be left half-written); otherwise `dest` exists and the
\* caller continues at `next`.
Invoke(op, arg, flag, dest, next) ==
  \E rc \in ReturnCodes :
    /\ calls' = Append(calls, Call(op, arg, flag, rc))
    /\ IF RunFfmpegRaises(rc)
         THEN \E partial \in SUBSET {dest} :
                /\ created' = created \cup partial
                /\ Raise("CalledProcessError", fs \cup partial)
         ELSE /\ created' = created \cup {dest}
              /\ fs' = fs \cup {dest}
              /\ pc' = next
              /\ UNCHANGED <<sub, error, dirs>>

\* The temporary list file of concatenate_media (NamedTemporaryFile, no dir=).
ListFile == <<"systmp", "concat_list", 0>>

\* concatenate_media: write the list file, one ffmpeg invocation, unlink the list.
Concat(nfiles, trimmed, dest, next, keep) ==
  \E rc \in ReturnCodes :
    /\ calls' = Append(calls, Call("concatenate_media", nfiles, trimmed, rc))
    /\ IF RunFfmpegRaises(rc)
         THEN \E partial \in SUBSET {dest} :
                /\ created' = created \cup {ListFile} \cup partial
                /\ Raise("CalledProcessError", (fs \cup partial) \ keep)
         ELSE /\ created' = created \cup {ListFile, dest}
              /\ fs' = (fs \cup {dest}) \ keep
              /\ pc' = next
              /\ sub' = 0
              /\ UNCHANGED <<error, dirs>>

\* ---------------------------------------------------- ffmpeg_utils wrappers
BlankAudio == <<"work", "blank_audio", 0>>

CreateBlankAudio ==
  /\ pc \in {"blank_audio", "join_blank_audio"}
  /\ Invoke("create_blank_audio", 0, FALSE, BlankAudio,
            IF pc = "blank_audio" THEN "src_fit" ELSE "join_next")
  /\ UNCHANGED <<cfgVars, sqsVars, audio_track, pvVars, mtVars, pyrVars, outVars, joinVars, padVars, stamps>>

TmpStripped == <<"systmp", "tmp_stripped", 0>>
MetaPath == <<"systmp", "ffmetadata", 0>>

\* The duration argument of create_time_padded_video at each call site.
PadDuration ==
  CASE pc = "src_fit" -> FitDuration(video_duration, padding_buffer)
    [] pc = "ffwd_fit" -> FitDuration(ffwd_duration, padding_buffer)
    [] pc = "final_pad" -> TotalDuration(padded_durations)
    [] pc = "join_fit" -> padded_durations[Len(padded_durations)]
    [] pc = "join_final" -> TotalDuration(padded_durations)
    [] OTHER -> 0

PadDest ==
  CASE pc = "src_fit" -> <<"work", "src_fit", 0>>
    [] pc = "ffwd_fit" -> <<"work", "ffwd_video_fit", rate>>
    [] pc = "final_pad" -> <<"work", "output", 0>>
    [] pc = "join_fit" -> <<"work", "join_video", join_idx>>
    [] pc = "join_final" -> <<"work", "join_final", 0>>
    [] OTHER -> <<"work", "none", 0>>

PadIncludeAudioAlways == TRUE
PadIncludeAudio == pc \in {"final_pad", "join_final"}

PadNext ==
  CASE pc = "src_fit" -> "src_padded"
    [] pc = "ffwd_fit" -> "ffwd_audio"
    [] pc = "final_pad" -> "ffwd_return"
    [] pc = "join_fit" -> "join_audio"
    [] pc = "join_final" -> "join_move"
    [] OTHER -> "none"

TimePadSites == {"src_fit", "ffwd_fit", "final_pad", "join_fit", "join_final"}

\* create_time_padded_video, first half: both temporary files are created, the
\* metadata file is written, strip_chapters runs.
CreateTimePaddedVideoStrip ==
  /\ pc \in TimePadSites /\ sub = 0
  /\ \E rc \in ReturnCodes :
       /\ fit_duration' = PadDuration
       /\ calls' = Append(calls, Call("strip_chapters", PadDuration, PadIncludeAudio, rc))
       /\ created' = created \cup {TmpStripped, MetaPath}
       /\ IF RunFfmpegRaises(rc)
            THEN /\ Raise("CalledProcessError", fs)
                 /\ UNCHANGED meta_end
            ELSE /\ fs' = fs \cup {TmpStripped, MetaPath}
                 /\ meta_end' = EndMs(PadDuration)
                 /\ sub' = 1
                 /\ UNCHANGED <<pc, error, dirs>>
  /\ UNCHANGED <<cfgVars, sqsVars, audio_track, pvVars, mtVars, pyrVars, outVars, joinVars, stamps>>

\* create_time_padded_video, second half: mux with the metadata file, then the
\* finally block unlinks both temporary files.
CreateTimePaddedVideoMux ==
  /\ pc \in TimePadSites /\ sub = 1
  /\ \E rc \in ReturnCodes :
       /\ calls' = Append(calls, Call("time_pad", fit_duration, PadIncludeAudio, rc))
       /\ IF RunFfmpegRaises(rc)
            THEN /\ \E partial \in SUBSET {PadDest} :
                      /\ created' = created \cup partial
                      /\ Raise("CalledProcessError", (fs \cup partial) \ {TmpStripped, MetaPath})
                 /\ UNCHANGED stamps
            ELSE /\ created' = created \cup {PadDest}
                 /\ fs' = (fs \cup {PadDest}) \ {TmpStripped, MetaPath}
                 /\ stamps' = stamps \cup
                      {[file |-> PadDest, end_ms |-> meta_end, audio |-> PadIncludeAudio]}
                 /\ pc' = PadNext
                 /\ sub' = 0
                 /\ UNCHANGED <<error, dirs>>
  /\ UNCHANGED <<cfgVars, sqsVars, audio_track, pvVars, mtVars, pyrVars, outVars, joinVars, meta_end, fit_duration>>

TmpAudio == <<"systmp", "tmp_audio", 0>>

PaddedAudioDest ==
  CASE pc = "src_padded" -> <<"work", "src_padded", 0>>
    [] pc = "join_audio" -> <<"work", "join_audio", join_idx>>
    [] OTHER -> <<"work", "none", 0>>

PaddedAudioNext ==
  CASE pc = "src_padded" -> "raw_audio"
    [] pc = "join_audio" -> "join_next"
    [] OTHER -> "none"

PaddedAudioSites == {"src_padded", "join_audio"}

\* create_padded_audio, first half: the temporary file, then extract_audio into it.
CreatePaddedAudioExtract ==
  /\ pc \in PaddedAudioSites /\ sub = 0
  /\ \E rc \in ReturnCodes :
       /\ calls' = Append(calls, Call("extract_audio", 0, FALSE, rc))
       /\ created' = created \cup {TmpAudio}
       /\ IF RunFfmpegRaises(rc)
            THEN Raise("CalledProcessError", fs)
            ELSE /\ fs' = fs \cup {TmpAudio}
                 /\ sub' = 1
                 /\ UNCHANGED <<pc, error, dirs>>
  /\ UNCHANGED <<cfgVars, sqsVars, audio_track, pvVars, mtVars, pyrVars, outVars, joinVars, padVars, stamps>>

\* create_padded_audio, second half: concatenate with the silence, unlink.
CreatePaddedAudioConcat ==
  /\ pc \in PaddedAudioSites /\ sub = 1
  /\ Concat(2, FALSE, PaddedAudioDest, PaddedAudioNext, {TmpAudio})
  /\ UNCHANGED <<cfgVars, sqsVars, audio_track, pvVars, mtVars, pyrVars, outVars, joinVars, padVars, stamps>>

RawAudio == <<"work", "src_audio", 0>>

ExtractAudio ==
  /\ pc = "raw_audio"
  /\ Invoke("extract_audio", 0, FALSE, RawAudio, "init_segments")
  /\ UNCHANGED <<cfgVars, sqsVars, audio_track, pvVars, mtVars, pyrVars, outVars, joinVars, padVars, stamps>>

CreateFastForwardVideo ==
  /\ pc = "ffwd_video"
  /\ doubling_count <= MaxDoublings
  /\ Invoke("create_fast_forward_video", rate, FALSE, <<"work", "ffwd_video", rate>>, "ffwd_probe")
  /\ UNCHANGED <<cfgVars, sqsVars, audio_track, pvVars, mtVars, pyrVars, outVars, joinVars, padVars, stamps>>

\* probe_video(ffwd_video): the actual duration of the sped-up copy.
ProbeFfwd ==
  /\ pc = "ffwd_probe"
  /\ \E rc \in ReturnCodes :
       /\ calls' = Append(calls, Call("probe_video", rate, FALSE, rc))
       /\ IF RunFfmpegRaises(rc)
            THEN /\ Raise("CalledProcessError", fs)
                 /\ UNCHANGED <<ffwd_duration, exact>>
            ELSE \E d \in ProbeOutcomes(video_duration, rate) :
                   /\ ffwd_duration' = d
                   /\ exact' = (exact /\ d * rate = video_duration)
                   /\ pc' = "ffwd_fit"
                   /\ UNCHANGED <<sub, error, fs, dirs>>
  /\ UNCHANGED <<cfgVars, sqsVars, audio_track, pvVars, mtVars, video_duration, src_duration, rates, durations,
                 padded_durations, doubling_count, rate,
                 outVars, joinVars, padVars, stamps, created>>

CreateFastForwardAudio ==
  /\ pc = "ffwd_audio"
  /\ Invoke("create_fast_forward_audio", doubling_count, FALSE,
            <<"work", "ffwd_audio", rate>>, "ffwd_audio_pad")
  /\ UNCHANGED <<cfgVars, sqsVars, audio_track, pvVars, mtVars, pyrVars, outVars, joinVars, padVars, stamps>>

ConcatSites == {"ffwd_audio_pad", "concat_video", "concat_audio",
                "join_concat_video", "join_concat_audio"}

ConcatCount ==
  CASE pc = "ffwd_audio_pad" -> 2
    [] OTHER -> Len(padded_durations)

ConcatDest ==
  CASE pc = "ffwd_audio_pad" -> <<"work", "ffwd_audio_pad", rate>>
    [] pc = "concat_video" -> <<"work", "final_video", 0>>
    [] pc = "concat_audio" -> <<"work", "final_audio", 0>>
    [] pc = "join_concat_video" -> <<"work", "join_concat_video", 0>>
    [] pc = "join_concat_audio" -> <<"work", "join_concat_audio", 0>>
    [] OTHER -> <<"work", "none", 0>>

ConcatNext ==
  CASE pc = "ffwd_audio_pad" -> "append_segment"
    [] pc = "concat_video" -> "concat_audio"
    [] pc = "concat_audio" -> "mux"
    [] pc = "join_concat_video" -> "join_concat_audio"
    [] pc = "join_concat_audio" -> "join_mux"
    [] OTHER -> "none"

\* concatenate_media called directly by the pipeline (trimmed for the audio track).
ConcatenateMedia ==
  /\ pc \in ConcatSites
  /\ Concat(ConcatCount, pc \in {"concat_audio", "join_concat_audio"}, ConcatDest,
            ConcatNext, {})
  /\ audio_track' =
       IF pc = "concat_audio" /\ pc' = ConcatNext
         THEN [i \in 1..Len(padded_durations) |->
                 Outpoint(PaddedAudioLength(video_duration, i, blank_audio_duration),
                          padded_durations[i])]
         ELSE audio_track
  /\ UNCHANGED <<cfgVars, sqsVars, pvVars, mtVars, pyrVars, outVars, joinVars, padVars, stamps>>

MuxVideoAudio ==
  /\ pc \in {"mux", "join_mux"}
  /\ Invoke("mux_video_audio", 0, FALSE,
            IF pc = "mux" THEN <<"work", "final_join", 0>> ELSE <<"work", "join_muxed", 0>>,
            IF pc = "mux" THEN "final_pad" ELSE "join_final")
  /\ UNCHANGED <<cfgVars, sqsVars, audio_track, pvVars, mtVars, pyrVars, outVars, joinVars, padVars, stamps>>

\* ------------------------------------------------- make_ffwd_concat_video
LoopTarget(d) == IF WhileCondition(d) THEN "ffwd_video" ELSE "concat_video"

\* Lines 101-112: the rate-1 segment is recorded, the loop variables are set,
\* the while condition is tested for the first time.
InitSegments ==
  /\ pc = "init_segments"
  /\ rates' = <<1>>
  /\ durations' = <<video_duration>>
  /\ padded_durations' = <<fit_duration>>
  /\ doubling_count' = 1
  /\ rate' = 2
  /\ ffwd_duration' = video_duration
  /\ pc' = LoopTarget(video_duration)
  /\ UNCHANGED <<cfgVars, sqsVars, audio_track, pvVars, mtVars, video_duration, src_duration, sub, error, exact, padVars,
                 calls, fs, created, dirs, stamps, outVars, joinVars>>

\* Lines 134-141 and the next test of the while condition.
AppendSegment ==
  /\ pc = "append_segment"
  /\ rates' = Append(rates, rate)
  /\ durations' = Append(durations, ffwd_duration)
  /\ padded_durations' = Append(padded_durations, fit_duration)
  /\ doubling_count' = doubling_count + 1
  /\ rate' = NextRate(doubling_count + 1)
  /\ pc' = LoopTarget(ffwd_duration)
  /\ UNCHANGED <<cfgVars, sqsVars, audio_track, pvVars, mtVars, video_duration, src_duration, sub, error, ffwd_duration,
                 exact, padVars, calls, fs, created, dirs, stamps, outVars, joinVars>>

\* Lines 164-169: the VideoSegmentData is built and returned.
FfwdReturn ==
  /\ pc = "ffwd_return"
  /\ segment_data' = [R |-> rates, D |-> durations, X |-> padded_durations]
  /\ returned' = TRUE
  /\ pc' = (IF entry = "make_ffwd_concat_video" THEN "done" ELSE "pv_move_video")
  /\ UNCHANGED <<cfgVars, sqsVars, audio_track, pvVars, mtVars, pyrVars, joinVars, sub, error, padVars, calls, fs, created, dirs,
                 stamps>>

\* ------------------------------------------------------------ join_videos
JoinAcceptsAnything(files) == FALSE
\* if not video_files: raise ValueError
JoinInputInvalid(files) == Len(files) = 0

JoinProbedFirst(idx) == video_files[1]
\* info = probe_video(src): the probed duration of the idx-th input
JoinProbedDuration(idx) == video_files[idx]

\* Lines 69-70: the input list is validated before anything else happens.
JoinValidate ==
  /\ pc = "join_check"
  /\ IF JoinInputInvalid(video_files)
       THEN Raise("ValueError", fs)
       ELSE /\ pc' = "join_probe_first"
            /\ UNCHANGED <<sub, error, fs, dirs>>
  /\ UNCHANGED <<cfgVars, sqsVars, audio_track, pvVars, mtVars, pyrVars, outVars, joinVars, padVars, stamps, calls, created>>

\* Line 73: first_info = probe_video(video_files[0]); indexing an empty list
\* raises IndexError before ffprobe is started.
JoinProbeFirst ==
  /\ pc = "join_probe_first"
  /\ IF Len(video_files) = 0
       THEN /\ Raise("IndexError", fs)
            /\ UNCHANGED calls
       ELSE \E rc \in ReturnCodes :
              /\ calls' = Append(calls, Call("probe_video", 0, FALSE, rc))
              /\ IF RunFfmpegRaises(rc)
                   THEN Raise("CalledProcessError", fs)
                   ELSE /\ pc' = "join_blank_audio"
                        /\ UNCHANGED <<sub, error, fs, dirs>>
  /\ UNCHANGED <<cfgVars, sqsVars, audio_track, pvVars, mtVars, pyrVars, outVars, joinVars, padVars, stamps, created>>

\* The for statement (line 87) and the appends that end an iteration.
JoinNext ==
  /\ pc = "join_next"
  /\ IF join_idx < Len(video_files)
       THEN join_idx' = join_idx + 1 /\ pc' = "join_probe"
       ELSE join_idx' = join_idx /\ pc' = "join_concat_video"
  /\ UNCHANGED <<cfgVars, sqsVars, audio_track, pvVars, mtVars, pyrVars, outVars, join_returned, join_result, padVars,
                 stamps, calls, created, sub, error, fs, dirs>>

\* Lines 88-90: the input is probed, its fit duration computed and recorded.
JoinProbeInput ==
  /\ pc = "join_probe"
  /\ \E rc \in ReturnCodes :
       /\ calls' = Append(calls, Call("probe_video", join_idx, FALSE, rc))
       /\ IF RunFfmpegRaises(rc)
            THEN /\ Raise("CalledProcessError", fs)
                 /\ UNCHANGED padded_durations
            ELSE /\ padded_durations' =
                      Append(padded_durations,
                             FitDuration(JoinProbedDuration(join_idx), padding_buffer))
                 /\ pc' = "join_fit"
                 /\ UNCHANGED <<sub, error, fs, dirs>>
  /\ UNCHANGED <<cfgVars, sqsVars, audio_track, pvVars, mtVars, video_duration, src_duration, rates, durations,
                 doubling_count, rate, ffwd_duration, exact,
                 outVars, joinVars, padVars, stamps, created>>

ExportFile == <<"export", "joined", 0>>

\* Lines 116-121: the final file is moved to export_file, the list is returned.
JoinMove ==
  /\ pc = "join_move"
  /\ dirs' = dirs \cup {"export"}
  /\ fs' = (fs \ {<<"work", "join_final", 0>>}) \cup {ExportFile}
  /\ created' = created \cup {ExportFile}
  /\ join_result' = padded_durations
  /\ join_returned' = TRUE
  /\ pc' = "done"
  /\ UNCHANGED <<cfgVars, sqsVars, audio_track, pvVars, mtVars, pyrVars, outVars, join_idx, padVars, stamps, calls, sub, error>>

\* ---------------------------------------------------------- process_video
\* Line 73: check_dependencies() runs `ffmpeg -version` and `ffprobe -version`.
CheckDependencies ==
  /\ pc = "pv_check_deps"
  /\ \E ok \in BOOLEAN :
       IF ok THEN /\ pc' = "pv_check_input"
                  /\ UNCHANGED <<sub, error, fs, dirs>>
             ELSE Raise("RuntimeError", fs)
  /\ UNCHANGED <<cfgVars, sqsVars, audio_track, pvVars, mtVars, pyrVars, outVars, joinVars, padVars, stamps,
                 calls, created>>

\* Lines 75-78: the source must exist; the export directory is created.
PvCheckInput ==
  /\ pc = "pv_check_input"
  /\ IF InputVideo \in fs
       THEN /\ pc' = "pv_probe"
            /\ dirs' = dirs \cup {"export"}
            /\ UNCHANGED <<sub, error, fs>>
       ELSE Raise("FileNotFoundError", fs)
  /\ UNCHANGED <<cfgVars, sqsVars, audio_track, pvVars, mtVars, pyrVars, outVars, joinVars, padVars, stamps,
                 calls, created>>

\* Line 81 and line 107: probe_video of the source, then of the normalized copy
\* (whose result is the probe_info every later step receives).
ProbeSource ==
  /\ pc \in {"pv_probe", "pv_reprobe"}
  /\ \E rc \in ReturnCodes :
       /\ calls' = Append(calls, Call("probe_video", 0, FALSE, rc))
       /\ IF RunFfmpegRaises(rc)
            THEN /\ Raise("CalledProcessError", fs)
                 /\ UNCHANGED video_duration
            ELSE /\ \E d \in (IF pc = "pv_probe" THEN {src_duration}
                                                 ELSE NormalizedOutcomes(src_duration)) :
                      video_duration' = d
                 /\ pc' = (IF pc = "pv_probe" THEN "pv_tmpdir" ELSE "blank_audio")
                 /\ UNCHANGED <<sub, error, fs, dirs>>
  /\ UNCHANGED <<cfgVars, sqsVars, audio_track, pvVars, mtVars, src_duration, rates, durations,
                 padded_durations, doubling_count, rate, ffwd_duration, exact, outVars,
                 joinVars, padVars, stamps, created>>

\* Lines 93-96: the metadata object and the TemporaryDirectory are created.
PvEnterTmpDir ==
  /\ pc = "pv_tmpdir"
  /\ metadata' = NewMetadata
  /\ dirs' = dirs \cup {"work"}
  /\ pc' = "pv_normalize"
  /\ UNCHANGED <<cfgVars, sqsVars, audio_track, mtVars, avd, pv_returned, result_dict, pyrVars, outVars, joinVars, padVars,
                 stamps, calls, created, sub, error, fs>>

NormalizeForWeb ==
  /\ pc = "pv_normalize"
  /\ Invoke("normalize_for_web", 0, FALSE, <<"work", "normalized", 0>>, "pv_reprobe")
  /\ UNCHANGED <<cfgVars, sqsVars, audio_track, pvVars, mtVars, pyrVars, outVars, joinVars, padVars, stamps>>

PvMoveVideoWritesAvd ==
  /\ pc = "pv_move_video"
  /\ metadata' = [metadata EXCEPT !.has_video = TRUE, !.video = segment_data]
  /\ avd' = Append(avd, ToDict([metadata EXCEPT !.has_video = TRUE, !.video = segment_data]))
  /\ fs' = (fs \ {<<"work", "output", 0>>}) \cup {<<"export", "video", 0>>, <<"export", "avd", 0>>}
  /\ created' = created \cup {<<"export", "video", 0>>, <<"export", "avd", 0>>}
  /\ pc' = "mt_layout"
  /\ UNCHANGED <<cfgVars, sqsVars, audio_track, mtVars, pv_returned, result_dict, pyrVars, outVars, joinVars, padVars,
                 stamps, calls, sub, error, dirs>>
\* Lines 118-122: the pyramid's metadata is kept, its file moved to export/video.
PvMoveVideo ==
  /\ pc = "pv_move_video"
  /\ metadata' = [metadata EXCEPT !.has_video = TRUE, !.video = segment_data]
  /\ fs' = (fs \ {<<"work", "output", 0>>}) \cup {<<"export", "video", 0>>}
  /\ created' = created \cup {<<"export", "video", 0>>}
  /\ pc' = "mt_layout"
  /\ UNCHANGED <<cfgVars, sqsVars, audio_track, mtVars, avd, pv_returned, result_dict, pyrVars, outVars, joinVars, padVars,
                 stamps, calls, sub, error, dirs>>

\* Lines 133-134 and the end of the with block: the montage's metadata is kept,
\* its file moved to the export directory, the TemporaryDirectory removed.
PvMoveMontage ==
  /\ pc = "pv_move_montage"
  /\ metadata' = [metadata EXCEPT !.has_montage = TRUE,
                                  !.montage = [W |-> thumb_width, H |-> thumb_height,
                                               B |-> cols, N |-> thumb_count]]
  /\ fs' = {f \in fs : f[1] # "work"} \cup {<<"export", "montage", 0>>}
  /\ created' = created \cup {<<"export", "montage", 0>>}
  /\ dirs' = dirs \ {"work", "frames"}
  /\ pc' = "pv_chapters"
  /\ UNCHANGED <<cfgVars, sqsVars, audio_track, mtVars, avd, pv_returned, result_dict, pyrVars, outVars, joinVars, padVars,
                 stamps, calls, sub, error>>

\* Lines 137-138: chapters are parsed when a chapter file is configured and exists.
PvChapters ==
  /\ pc = "pv_chapters"
  /\ metadata' = IF chapter_file.configured /\ InputChapters \in fs
                   THEN [metadata EXCEPT !.has_chapters = TRUE,
                                         !.chapters = ParseChapters(chapter_file.lines)]
                   ELSE metadata
  /\ pc' = "pv_write_avd"
  /\ UNCHANGED <<cfgVars, sqsVars, audio_track, mtVars, avd, pv_returned, result_dict, pyrVars, outVars, joinVars, padVars,
                 stamps, calls, created, sub, error, fs, dirs>>

AvdFile == <<"export", "avd", 0>>

\* Lines 141-145: the .avd file is written and the metadata returned.
PvWriteAvd ==
  /\ pc = "pv_write_avd"
  /\ avd' = Append(avd, ToDict(metadata))
  /\ fs' = fs \cup {AvdFile}
  /\ created' = created \cup {AvdFile}
  /\ pv_returned' = TRUE
  /\ pc' = (IF entry = "_process_video" THEN "sqs_upload" ELSE "done")
  /\ UNCHANGED <<cfgVars, sqsVars, audio_track, mtVars, metadata, result_dict, pyrVars, outVars, joinVars,
                 padVars, stamps, calls, sub, error, dirs>>

\* ------------------------------------------------------------ make_montage
\* Lines 53-80: the grid layout; math.ceil(thumb_count / cols) divides by zero
\* when cols is 0; then the frames directory is created.
MontageLayout ==
  /\ pc = "mt_layout"
  /\ LET total == FloorSeconds(video_duration)
         th == ThumbHeight(thumb_width, frame_size)
         tc == ThumbCount(total, thumb_width, th, max_jpeg_dimension)
         c == Columns(tc, StacksPerRow(thumb_width, th))
     IN /\ total_seconds' = total
        /\ thumb_height' = th
        /\ thumb_count' = tc
        /\ cols' = c
        /\ IF c = 0
             THEN /\ Raise("ZeroDivisionError", fs)
                  /\ UNCHANGED rows
             ELSE /\ rows' = Rows(tc, c)
                  /\ dirs' = dirs \cup {"frames"}
                  /\ pc' = "mt_extract"
                  /\ UNCHANGED <<sub, error, fs>>
  /\ mt_i' = 0
  /\ thumbnails' = <<>>
  /\ UNCHANGED <<cfgVars, sqsVars, audio_track, pvVars, pyrVars, outVars, joinVars, padVars, stamps, calls,
                 created, canvas, mt_returned>>

\* frame_path = frame_dir / f"{sec}.png"
FramePath == <<"work", "frame", FrameSec(mt_i, thumb_count, total_seconds)>>

AfterIndexExclusive == IF mt_i + 1 < thumb_count THEN "mt_extract" ELSE "mt_assemble"
\* The end of one iteration of `for i in range(thumb_count + 1)`.
AfterIndex == IF mt_i + 1 <= thumb_count THEN "mt_extract" ELSE "mt_assemble"

RetryWhenMissing(written, sec) == ~written
\* if not frame_path.exists() and sec > 0
RetryNeeded(written, sec) == ~written /\ sec > 0

\* extract_frame (line 88), and its retry one second earlier (line 94): ffmpeg
\* may exit 0 without writing the frame.
ExtractFrame ==
  /\ pc \in {"mt_extract", "mt_retry"}
  /\ LET sec == FrameSec(mt_i, thumb_count, total_seconds)
         at == IF pc = "mt_extract" THEN sec ELSE sec - 1
     IN \E rc \in ReturnCodes :
          /\ calls' = Append(calls, Call("extract_frame", at, FALSE, rc))
          /\ IF RunFfmpegRaises(rc)
               THEN /\ Raise("CalledProcessError", fs)
                    /\ UNCHANGED <<created, mt_i>>
               ELSE \E written \in BOOLEAN :
                      /\ fs' = IF written THEN fs \cup {FramePath} ELSE fs
                      /\ created' = IF written THEN created \cup {FramePath} ELSE created
                      /\ pc' = IF written THEN "mt_thumb"
                               ELSE IF pc = "mt_extract" /\ RetryNeeded(written, sec)
                                 THEN "mt_retry"
                               ELSE AfterIndex
                      /\ mt_i' = IF written \/ (pc = "mt_extract" /\ RetryNeeded(written, sec))
                                   THEN mt_i ELSE mt_i + 1
                      /\ UNCHANGED <<sub, error, dirs>>
  /\ UNCHANGED <<cfgVars, sqsVars, audio_track, pvVars, total_seconds, thumb_height, thumb_count, cols, rows,
                 thumbnails, canvas, mt_returned, pyrVars, outVars, joinVars, padVars,
                 stamps>>

UnlinkFrameKeeps(files, f) == files
\* frame_path.unlink(missing_ok=True)
UnlinkFrame(files, f) == files \ {f}

\* Lines 100-108: the frame becomes a thumbnail and its file is unlinked.
MontageThumb ==
  /\ pc = "mt_thumb"
  /\ thumbnails' = Append(thumbnails, mt_i)
  /\ fs' = UnlinkFrame(fs, FramePath)
  /\ mt_i' = mt_i + 1
  /\ pc' = AfterIndex
  /\ UNCHANGED <<cfgVars, sqsVars, audio_track, pvVars, total_seconds, thumb_height, thumb_count, cols, rows,
                 canvas, mt_returned, pyrVars, outVars, joinVars, padVars, stamps, calls,
                 created, sub, error, dirs>>

\* x = (idx % cols) * thumb_width, in cells; idx is the position in thumbnails
PasteColumn(idx, c) == idx % c

\* y = (idx // cols) * thumb_height, in cells
PasteRow(idx, c) == idx \div c

\* Lines 110-137: the thumbnails are pasted, the grid is saved as montage.jpg
\* and the MontageData is returned.
MontageAssemble ==
  /\ pc = "mt_assemble"
  /\ canvas' = {[index |-> thumbnails[k],
                 col |-> PasteColumn(k - 1, cols),
                 row |-> PasteRow(k - 1, cols)] : k \in 1..Len(thumbnails)}
  /\ mt_returned' = TRUE
  /\ fs' = fs \cup {<<"work", "montage", 0>>}
  /\ created' = created \cup {<<"work", "montage", 0>>}
  /\ pc' = (IF entry = "make_montage" THEN "done" ELSE "pv_move_montage")
  /\ UNCHANGED <<cfgVars, sqsVars, audio_track, pvVars, total_seconds, thumb_height, thumb_count, cols, rows,
                 mt_i, thumbnails, pyrVars, outVars, joinVars, padVars, stamps,
                 calls, sub, error, dirs>>

\* -------------------------------------------------- process_chapters_only
\* Lines 183-185: the export directory and the metadata object are created; the
\* chapters and the .avd file follow as in process_video (lines 186-193).
ProcessChaptersOnly ==
  /\ pc = "pco_mkdir"
  /\ dirs' = dirs \cup {"export"}
  /\ metadata' = NewMetadata
  /\ pc' = "pv_chapters"
  /\ UNCHANGED <<cfgVars, sqsVars, audio_track, mtVars, avd, pv_returned, result_dict, pyrVars, outVars, joinVars,
                 padVars, stamps, calls, created, sub, error, fs>>

\* ---------------------------------------------------- VideoMetadata.to_dict
\* metadata.to_dict() called on a VideoMetadata by a direct caller.
ToDictCall ==
  /\ pc = "to_dict"
  /\ result_dict' = Append(result_dict, ToDict(metadata))
  /\ pc' = "done"
  /\ UNCHANGED <<cfgVars, sqsVars, audio_track, mtVars, metadata, avd, pv_returned, pyrVars, outVars, joinVars,
                 padVars, stamps, calls, created, sub, error, fs, dirs>>

\* ------------------------------------------- _process_video (src/handler.py)
\* Lines 116-121: the working directory and its export subdirectory.
SqsMakeWorkDir ==
  /\ pc = "sqs_mkdtemp"
  /\ dirs' = dirs \cup {"lambda", "export"}
  /\ pc' = "sqs_download"
  /\ UNCHANGED <<cfgVars, sqsVars, audio_track, pvVars, mtVars, pyrVars, outVars, joinVars, padVars, stamps,
                 calls, created, sub, error, fs>>

\* download_from_s3 of the source (line 129) and of the chapter file (line 135).
DownloadFromS3 ==
  /\ pc \in {"sqs_download", "sqs_download_chapters"}
  /\ \E ok \in BOOLEAN :
       IF ok
         THEN LET f == IF pc = "sqs_download" THEN InputVideo ELSE InputChapters
              IN /\ fs' = fs \cup {f}
                 /\ created' = created \cup {f}
                 /\ pc' = (IF pc = "sqs_download" /\ chapter_file.configured
                             THEN "sqs_download_chapters" ELSE "pv_check_deps")
                 /\ UNCHANGED <<sub, error, dirs>>
         ELSE /\ Raise("ClientError", fs)
              /\ UNCHANGED created
  /\ UNCHANGED <<cfgVars, sqsVars, audio_track, pvVars, mtVars, pyrVars, outVars, joinVars, padVars, stamps,
                 calls>>

\* Lines 148-155: the outputs are uploaded; the finally block removes the
\* working directory.
UploadDirectoryToS3 ==
  /\ pc = "sqs_upload"
  /\ \E ok \in BOOLEAN :
       IF ok
         THEN /\ pc' = "done"
              /\ fs' = {f \in fs : f[1] \notin ScopedDirs}
              /\ dirs' = dirs \ ScopedDirs
              /\ UNCHANGED <<sub, error>>
         ELSE Raise("ClientError", fs)
  /\ UNCHANGED <<cfgVars, sqsVars, audio_track, pvVars, mtVars, pyrVars, outVars, joinVars, padVars, stamps,
                 calls, created>>

\* ------------------------------------------------- handler (src/handler.py)
\* Everything of the run that the batch loop does not touch.
pipelineVars == <<cfgVars, audio_track, pvVars, mtVars, pyrVars, outVars, joinVars, padVars, stamps,
                 calls, created, sub, fs, dirs>>

\* The exception raised by lines 63-69 for a record body, or "none".
ParseError(body) ==
  CASE ~body.json -> "JSONDecodeError"
    [] ~body.object -> "TypeError"
    [] ~({"docId", "versionId", "s3Key"} \subseteq body.keys) -> "KeyError"
    [] ~({"docId", "versionId", "s3Key"} \subseteq body.filled) -> "ValueError"
    [] OTHER -> "none"

\* message as the except block sees it: None unless json.loads returned.
MessageTruthy(body) == body.json /\ body.truthy

ReportPropagates(delivered) == ~delivered
\* report_to_convex: except Exception: logger.exception(...) -- never raises
ReportRaises(delivered) == FALSE

\* One call of report_to_convex: without CONVEX_URL nothing is sent.
ReportOutcomes == IF convex_url THEN BOOLEAN ELSE {FALSE}

\* Line 58: the next record is taken, or the loop ends and line 98 returns.
HandlerNext ==
  /\ pc = "h_next"
  /\ IF rec_idx < Len(records)
       THEN /\ rec_idx' = rec_idx + 1
            /\ pc' = "h_parse"
            /\ UNCHANGED handler_returned
       ELSE /\ handler_returned' = TRUE
            /\ pc' = "done"
            /\ UNCHANGED rec_idx
  /\ UNCHANGED <<pipelineVars, error, records, convex_url, exc, attempts,
                 batch_item_failures, reports>>

\* Lines 63-69: the body is parsed and its required fields are read.
HandlerParse ==
  /\ pc = "h_parse"
  /\ LET e == ParseError(records[rec_idx])
     IN IF e = "none"
          THEN /\ pc' = "h_process"
               /\ UNCHANGED <<exc, attempts>>
          ELSE /\ pc' = "h_except"
               /\ exc' = e
               /\ attempts' = Append(attempts, [rec |-> rec_idx, raised |-> e])
  /\ UNCHANGED <<pipelineVars, error, records, convex_url, rec_idx, batch_item_failures,
                 reports, handler_returned>>

\* Lines 71-76: _process_video returns or raises.
HandlerProcess ==
  /\ pc = "h_process"
  /\ \E o \in ProcessVideoOutcomes :
       IF o = "returned"
         THEN /\ pc' = "h_report"
              /\ attempts' = Append(attempts, [rec |-> rec_idx, raised |-> "none"])
              /\ UNCHANGED exc
         ELSE /\ pc' = "h_except"
              /\ exc' = o
              /\ attempts' = Append(attempts, [rec |-> rec_idx, raised |-> o])
  /\ UNCHANGED <<pipelineVars, error, records, convex_url, rec_idx, batch_item_failures,
                 reports, handler_returned>>

\* Lines 78-82: status "published" is reported, inside the try block.
HandlerReportPublished ==
  /\ pc = "h_report"
  /\ \E delivered \in ReportOutcomes :
       /\ reports' = Append(reports, [rec |-> rec_idx, status |-> "published",
                                      delivered |-> delivered])
       /\ IF ReportRaises(delivered)
            THEN pc' = "h_except" /\ exc' = "URLError"
            ELSE pc' = "h_next" /\ exc' = exc
  /\ UNCHANGED <<pipelineVars, error, records, convex_url, rec_idx, attempts,
                 batch_item_failures, handler_returned>>

\* Lines 84-96: the except block. message.get on a message that is not an
\* object raises AttributeError out of the handler; otherwise status "failed"
\* is reported when the message has a versionId, and the messageId is appended.
HandlerExcept ==
  /\ pc = "h_except"
  /\ LET body == records[rec_idx]
     IN IF MessageTruthy(body) /\ ~body.object
          THEN /\ pc' = "raised"
               /\ error' = "AttributeError"
               /\ UNCHANGED <<reports, batch_item_failures>>
          ELSE /\ \E delivered \in ReportOutcomes :
                    reports' =
                      IF MessageTruthy(body) /\ "versionId" \in body.filled
                        THEN Append(reports, [rec |-> rec_idx, status |-> "failed",
                                              delivered |-> delivered])
                        ELSE reports
               /\ batch_item_failures' = Append(batch_item_failures, rec_idx)
               /\ pc' = "h_next"
               /\ UNCHANGED error
  /\ exc' = "none"
  /\ UNCHANGED <<pipelineVars, records, convex_url, rec_idx, attempts, handler_returned>>

\* ------------------------------------------------------------ specification
Next ==
  \/ CreateBlankAudio
  \/ CreateTimePaddedVideoStrip
  \/ CreateTimePaddedVideoMux
  \/ CreatePaddedAudioExtract
  \/ CreatePaddedAudioConcat
  \/ ExtractAudio
  \/ CreateFastForwardVideo
  \/ ProbeFfwd
  \/ CreateFastForwardAudio
  \/ ConcatenateMedia
  \/ MuxVideoAudio
  \/ InitSegments
  \/ AppendSegment
  \/ FfwdReturn
  \/ JoinValidate
  \/ JoinProbeFirst
  \/ JoinNext
  \/ JoinProbeInput
  \/ JoinMove
  \/ CheckDependencies
  \/ PvCheckInput
  \/ ProbeSource
  \/ PvEnterTmpDir
  \/ NormalizeForWeb
  \/ PvMoveVideo
  \/ PvMoveMontage
  \/ PvChapters
  \/ PvWriteAvd
  \/ MontageLayout
  \/ ExtractFrame
  \/ MontageThumb
  \/ MontageAssemble
  \/ ProcessChaptersOnly
  \/ ToDictCall
  \/ HandlerNext
  \/ HandlerParse
  \/ HandlerProcess
  \/ HandlerReportPublished
  \/ HandlerExcept
  \/ SqsMakeWorkDir
  \/ DownloadFromS3
  \/ UploadDirectoryToS3

Spec == Init /\ [][Next]_vars

FairSpec == Init /\ [][Next]_vars /\ WF_vars(Next)

\* ------------------------------------------------------------------ claims
OutputFile == <<"work", "output", 0>>

\* n is the least whole number of seconds that covers x ticks.
IsCeil(n, x) == n * TicksPerSecond >= x /\ (n - 1) * TicksPerSecond < x

Issued(op, arg) == \E i \in 1..Len(calls) : calls[i].op = op /\ calls[i].arg = arg

IssuedOp(op) == \E i \in 1..Len(calls) : calls[i].op = op

FinalStamps == {s \in stamps : s.file = OutputFile}

\* The run of the scenario: 9.3 s, padding_buffer = 1, every re-probe is 9.3/r.
ScenarioReturned ==
  /\ returned
  /\ video_duration = 93 * Tenth
  /\ padding_buffer = TicksPerSecond
  /\ exact

\* C1 as stated: four segments (1, 2, 4, 8) padded to 11, 6, 4, 3; no rate-16
\* segment is built; the final file is stamped 24 s.
C1_Original ==
  ScenarioReturned =>
    /\ segment_data.R = <<1, 2, 4, 8>>
    /\ segment_data.X = <<11, 6, 4, 3>>
    /\ ~Issued("create_fast_forward_video", 16)
    /\ \A s \in FinalStamps : s.end_ms = 24 * 1000

\* C1 as amended: the scenario records five segments (rates 1, 2, 4, 8, 16) with
\* padded durations 11, 6, 4, 3, 2; the rate-16 segment (0.58125 s) is built
\* because the loop tests the previous segment's duration, the rate-32 segment
\* is not; the final file is stamped 26 s.
C1_Scenario ==
  ScenarioReturned =>
    /\ segment_data.R = <<1, 2, 4, 8, 16>>
    /\ segment_data.D = <<93 * Tenth, (93 * Tenth) \div 2, (93 * Tenth) \div 4,
                          (93 * Tenth) \div 8, (93 * Tenth) \div 16>>
    /\ segment_data.X = <<11, 6, 4, 3, 2>>
    /\ Issued("create_fast_forward_video", 16)
    /\ ~Issued("create_fast_forward_video", 32)
    /\ FinalStamps # {}
    /\ \A s \in FinalStamps : s.end_ms = 26 * 1000

C1_Witness == ScenarioReturned /\ pc = "done" /\ entry = "make_ffwd_concat_video"

Doubling(r) == (r # <<>> => r[1] = 1) /\ \A i \in 2..Len(r) : r[i] = 2 * r[i - 1]

\* C2: at every point of the loop and in the returned VideoSegmentData,
\* rates[0] = 1, each later rate is twice the one before, and the three lists
\* have the same length.
C2_RatesDouble ==
  /\ Doubling(rates)
  /\ Len(rates) = Len(durations)
  /\ (entry # "join_videos" => Len(durations) = Len(padded_durations))
  /\ (pc \in {"ffwd_video", "ffwd_probe", "ffwd_fit", "ffwd_audio", "ffwd_audio_pad",
              "append_segment"} =>
        /\ rates # <<>>
        /\ rate = 2 * rates[Len(rates)]
        /\ rate = Pow2(doubling_count))
  /\ (returned =>
        /\ segment_data.R # <<>>
        /\ Doubling(segment_data.R)
        /\ Len(segment_data.R) = Len(segment_data.D)
        /\ Len(segment_data.D) = Len(segment_data.X))

C2_Witness == returned /\ Len(segment_data.R) >= 4

C4_LoopTerminates ==
  (pc = "blank_audio") ~> (pc = "concat_video" \/ error # "none" \/ ~exact)

C4_Witness == pc = "concat_video" /\ exact /\ Len(rates) >= 5

\* C5: a source of at most one second never enters the doubling loop: no
\* speed-change call is issued and the metadata has the rate-1 segment only.
C5_ShortSourceOneSegment ==
  (entry # "join_videos" /\ pc # StartPc(entry) /\ video_duration <= TicksPerSecond) =>
    /\ ~IssuedOp("create_fast_forward_video")
    /\ ~IssuedOp("create_fast_forward_audio")
    /\ Len(rates) <= 1
    /\ (returned => segment_data.R = <<1>> /\ Len(segment_data.X) = 1)

C5_Witness == returned /\ video_duration = TicksPerSecond /\ segment_data.R = <<1>>

\* C6: on a successful run the duration stamped on the final file by the last
\* pad-to-duration call is the sum of the returned padded_durations.
C6_FinalStampIsSum ==
  returned =>
    /\ Cardinality(FinalStamps) = 1
    /\ \A s \in FinalStamps : s.end_ms = 1000 * SeqSum(segment_data.X) /\ s.audio

C6_Witness == returned /\ Len(segment_data.X) >= 3 /\ FinalStamps # {}

\* C9: join_videos with an empty list fails with an input-validation error
\* before any capability call is issued and before any file or directory is
\* created.
C9_EmptyJoinRejected ==
  (entry = "join_videos" /\ video_files = <<>>) =>
    /\ calls = <<>>
    /\ created = {}
    /\ fs = {}
    /\ "export" \notin dirs
    /\ ~join_returned
    /\ pc \in {"join_check", "raised"}
    /\ (pc = "raised" => error = "ValueError")

C9_Witness ==
  entry = "join_videos" /\ video_files = <<>> /\ pc = "raised" /\ error = "ValueError"

JoinStamps == {s \in stamps : s.file = <<"work", "join_final", 0>>}

\* C10: for a non-empty list join_videos returns one padded duration per input,
\* in input order, each the ceiling of that input's own probed duration plus
\* the buffer, and the final joined file is stamped with the sum of the list.
C10_JoinPerInput ==
  join_returned =>
    /\ Len(join_result) = Len(video_files)
    /\ \A i \in 1..Len(video_files) :
         /\ IsCeil(join_result[i], video_files[i] + padding_buffer)
         /\ \A c \in 0..join_result[i] :
              IsCeil(c, video_files[i]) =>
                join_result[i] = c + padding_buffer \div TicksPerSecond
    /\ Cardinality(JoinStamps) = 1
    /\ \A s \in JoinStamps : s.end_ms = 1000 * SeqSum(join_result) /\ s.audio
    /\ ExportFile \in fs

C10_Witness ==
  /\ join_returned
  /\ Len(join_result) = 2
  /\ join_result[1] > join_result[2]

\* The result of the entry point was handed back to its caller.
EntryReturned ==
  CASE entry = "make_ffwd_concat_video" -> returned
    [] entry = "join_videos" -> join_returned
    [] OTHER -> pv_returned

\* C7: when a capability call exits abnormally the run aborts with that error:
\* the failed call is the last one issued (no retry, no later call), nothing is
\* returned and no .avd file is written.
C7_FailureAborts ==
  \A i \in 1..Len(calls) :
    calls[i].rc # 0 =>
      /\ i = Len(calls)
      /\ pc = "raised"
      /\ error = "CalledProcessError"
      /\ ~EntryReturned
      /\ avd = <<>>
      /\ AvdFile \notin fs

C7_Witness ==
  /\ entry = "process_video"
  /\ Len(calls) > 0
  /\ calls[Len(calls)].op = "extract_frame"
  /\ calls[Len(calls)].rc # 0
  /\ Len(thumbnails) > 0

\* Directories that are the run's working directory (the export directory of
\* the queue handler lies inside its working directory).
WorkingDirs ==
  IF entry = "_process_video" THEN {"work", "frames", "lambda", "export"}
                              ELSE {"work", "frames"}

\* Files the run creates that are not its final outputs.
IsIntermediate(f) == f[1] # "export" \/ entry = "_process_video"

\* C8: every intermediate artifact is created under the run's working
\* directory, and when the run ends, normally or by a failure, the working
\* directory and every intermediate file created during the run are gone.
C8_ScopedAndRemoved ==
  entry \in {"process_video", "_process_video"} =>
    /\ \A f \in created : IsIntermediate(f) => f[1] \in WorkingDirs
    /\ (pc \in {"done", "raised"} =>
          /\ dirs \cap WorkingDirs = {}
          /\ \A f \in created : IsIntermediate(f) => f \notin fs)

\* C11: every MontageData that make_montage produces describes a canvas within
\* the pixel limit: thumb_width * columns <= max_jpeg_dimension and
\* thumb_height * rows <= max_jpeg_dimension.
C11_CanvasFitsLimit ==
  mt_returned =>
    /\ thumb_width * cols <= max_jpeg_dimension
    /\ thumb_height * rows <= max_jpeg_dimension

\* C12: every MontageData that make_montage produces has columns >= 1, rows at
\* least the ceiling of thumb_count / columns, and columns * rows >= thumb_count.
C12_GridHoldsAll ==
  mt_returned =>
    /\ cols >= 1
    /\ cols * rows >= thumb_count
    /\ \A r \in 0..thumb_count :
         (r * cols >= thumb_count /\ (r - 1) * cols < thumb_count) => rows >= r

C12_Witness == mt_returned /\ thumb_count >= 3 /\ cols >= 2

\* Errors that end a run before make_montage is entered or at a capability call.
OutsideLayoutErrors ==
  {"CalledProcessError", "RuntimeError", "FileNotFoundError", "ClientError"}

\* C13: when the computed thumb_count is 0, make_montage does not fail: the
\* only errors that may end such a run are those raised outside its layout.
C13_ZeroCountCompletes ==
  (entry \in {"make_montage", "process_video", "_process_video"}
     /\ pc = "raised" /\ thumb_count = 0) => error \in OutsideLayoutErrors

\* C14: per sampled index the frame is extracted at most twice; the second
\* attempt directly follows a first attempt that exited normally, left no file
\* and had sec > 0, and is made at sec - 1; a frame that is still missing is
\* skipped: only an abnormal exit of the call ends the run.
C14_RetryOnceThenSkip ==
  /\ \A j \in 1..Len(calls) :
       (calls[j].op = "extract_frame" /\ calls[j].site = "mt_retry") =>
         /\ j > 1
         /\ calls[j - 1].op = "extract_frame"
         /\ calls[j - 1].site = "mt_extract"
         /\ calls[j - 1].rc = 0
         /\ calls[j - 1].arg = calls[j].arg + 1
         /\ calls[j].arg >= 0
  /\ \A j, k \in 1..Len(calls) :
       (j < k /\ calls[j].site = "mt_extract" /\ calls[k].site = "mt_extract") =>
         calls[j].arg < calls[k].arg
  /\ (pc = "mt_retry" => FramePath \notin fs)
  /\ (pc = "raised" /\ ~mt_returned /\ Len(calls) > 0
        /\ calls[Len(calls)].op = "extract_frame") =>
       calls[Len(calls)].rc # 0
  /\ (mt_returned =>
        /\ Len(thumbnails) <= thumb_count + 1
        /\ \A k \in 1..Len(thumbnails) : thumbnails[k] \in 0..thumb_count
        /\ \A k \in 2..Len(thumbnails) : thumbnails[k - 1] < thumbnails[k])

C14_Witness ==
  /\ mt_returned
  /\ Len(thumbnails) >= 1
  /\ Len(thumbnails) < thumb_count + 1
  /\ \E j \in 1..Len(calls) : calls[j].site = "mt_retry" /\ calls[j].rc = 0

\* C15: the thumbnail of sampling index i is pasted at column i mod columns,
\* row i div columns, also when frames of earlier indices were skipped.
C15_PastedAtIndexCell ==
  \A c \in canvas : c.col = c.index % cols /\ c.row = c.index \div cols

\* C16: every well-formed START time HH:MM:SS.ffffff yields start_seconds =
\* 3600*HH + 60*MM + SS + ffffff/1000000, all four components contributing;
\* 00:13:00.150000 yields 780.15.
C16_StartSecondsAllParts ==
  (metadata.has_chapters /\ entry # "to_dict") =>
    \A i \in 1..Len(metadata.chapters) :
      LET t == chapter_file.lines[2 * i - 1][2]
          sec == metadata.chapters[i].start_seconds
      IN /\ 2 * i <= Len(chapter_file.lines)
         /\ sec[1] = 3600 * t[1] + 60 * t[2] + t[3]
         /\ sec[2] = t[4]
         /\ (t = <<0, 13, 0, 150000>> => sec = <<780, 150000>>)
         /\ (t = <<1, 2, 3, 500000>> => sec = <<3723, 500000>>)

C16_Witness ==
  /\ pv_returned
  /\ Len(metadata.chapters) = 2
  /\ metadata.chapters[1].start_seconds = <<780, 150000>>
  /\ metadata.chapters[2].start_seconds = <<3723, 500000>>

\* C17: a chapter file whose last pair lacks its TITLE line is a fatal parse
\* error: no chapter list is returned for it and the run writes no .avd.
C17_TruncatedIsFatal ==
  (Len(chapter_file.lines) % 2 = 1) => (~metadata.has_chapters /\ avd = <<>>)

\* C18: a run whose configured chapter file is absent fails with a
\* missing-input error: it neither returns nor writes an .avd file.
C18_AbsentChapterFileFails ==
  (entry \in {"process_video", "process_chapters_only"}
     /\ chapter_file.configured /\ InputChapters \notin fs) =>
    (~pv_returned /\ avd = <<>> /\ AvdFile \notin fs)

\* Every dict to_dict has returned, for the .avd file or to a direct caller
\* (the metadata is the object it was called on: nothing mutates it later).
DictsOut ==
  {avd[k] : k \in 1..Len(avd)} \cup {result_dict[k] : k \in 1..Len(result_dict)}

\* The dict lists the chapters as [title, seconds] pairs in the list's order.
ChapterPairsInOrder(d) ==
  /\ Len(d.C) = Len(metadata.chapters)
  /\ \A i \in 1..Len(metadata.chapters) :
       d.C[i] = <<metadata.chapters[i].title, metadata.chapters[i].start_seconds>>

\* One pyramid segment, no montage, two chapters serialize to V.R = [1], no M
\* key, and C with the two pairs in order.
ScenarioDict(d) ==
  (metadata.has_video /\ metadata.video.R = <<1>> /\ ~metadata.has_montage
     /\ Len(metadata.chapters) = 2) =>
    /\ "V" \in d.keys /\ d.V.R = <<1>>
    /\ "M" \notin d.keys
    /\ "C" \in d.keys /\ Len(d.C) = 2

\* The parsed chapters keep the order of the file's pairs.
ChaptersInFileOrder ==
  (metadata.has_chapters /\ entry # "to_dict") =>
    \A i \in 1..Len(metadata.chapters) :
      metadata.chapters[i].title = chapter_file.lines[2 * i][2]

\* C19 as stated: the dict has key C exactly when a chapter list was produced
\* (metadata.chapters was set), an empty list included.
C19_Original ==
  \A d \in DictsOut :
    /\ "I" \in d.keys
    /\ ("V" \in d.keys <=> metadata.has_video)
    /\ ("M" \in d.keys <=> metadata.has_montage)
    /\ ("C" \in d.keys <=> metadata.has_chapters)

\* C19 as amended: the dict always has key I; it has V or M exactly when the
\* pyramid or montage data is set, and C exactly when the chapter list is set
\* and non-empty; C lists [title, seconds] pairs in file order; the scenario's
\* dict has V.R = [1], no M, and two pairs in C.
C19_KeysWhenProduced ==
  /\ ChaptersInFileOrder
  /\ \A d \in DictsOut :
       /\ d.keys \subseteq {"I", "V", "M", "C"}
       /\ "I" \in d.keys
       /\ ("V" \in d.keys <=> metadata.has_video)
       /\ ("M" \in d.keys <=> metadata.has_montage)
       /\ ("C" \in d.keys <=> (metadata.has_chapters /\ metadata.chapters # <<>>))
       /\ ChapterPairsInOrder(d)
       /\ ScenarioDict(d)

C19_Witness ==
  /\ entry = "to_dict"
  /\ result_dict # <<>>
  /\ metadata.has_video /\ metadata.video.R = <<1>> /\ ~metadata.has_montage
  /\ Len(metadata.chapters) = 2
  /\ result_dict[1].keys = {"I", "V", "C"}

\* C20: a process_video run writes the .avd file at most once, after the
\* pyramid, the montage and the chapters are in the metadata, as its last
\* step; the metadata does not change afterwards; a run that fails earlier
\* writes no .avd file.
C20_AvdOnceAtEnd ==
  /\ [](entry \in {"process_video", "_process_video"} =>
          /\ Len(avd) <= 1
          /\ (avd # <<>> =>
                /\ pv_returned /\ returned /\ mt_returned
                /\ metadata.has_video /\ metadata.has_montage
                /\ (entry = "process_video" =>
                      (metadata.has_chapters <=>
                         (chapter_file.configured /\ InputChapters \in fs)))
                /\ avd[1] = ToDict(metadata)
                /\ pc \in {"done", "sqs_upload", "raised"})
          /\ (~pv_returned => (avd = <<>> /\ AvdFile \notin fs)))
  /\ [][(entry \in {"process_video", "_process_video"} /\ avd # <<>>) =>
         (metadata' = metadata /\ avd' = avd)]_vars

C20_Witness ==
  /\ entry = "process_video"
  /\ pc = "done"
  /\ Len(avd) = 1
  /\ avd[1].keys = {"I", "V", "M", "C"}

\* ------------------------------------------------------------ SQS handler
\* The messageIds of the records whose try block raised, in record order.
RaisedIds ==
  LET F == SelectSeq(attempts, LAMBDA a : a.raised # "none")
  IN [k \in 1..Len(F) |-> F[k].rec]

\* The statuses report_to_convex was called with for record i.
ReportsOf(i) == {k \in 1..Len(reports) : reports[k].rec = i}

PublishedFor(i) == \E k \in ReportsOf(i) : reports[k].status = "published"

\* C21: when handler has ended, it has returned, the try block of every
\* record was entered, in record order, and batchItemFailures holds exactly
\* the messageIds of the records whose processing raised, once each, in
\* record order.
C21_AllAttemptedExactFailures ==
  (entry = "handler" /\ pc \in {"done", "raised"}) =>
    /\ handler_returned
    /\ Len(attempts) = Len(records)
    /\ \A i \in 1..Len(attempts) : attempts[i].rec = i
    /\ batch_item_failures = RaisedIds

\* C22: report_to_convex is called at most once per record; "published" is
\* reported only for a record whose _process_video call returned, and no
\* such record is in batchItemFailures; when handler returns, the records
\* with a "published" report are exactly those absent from
\* batchItemFailures; the report itself never raises, whether it is
\* delivered or not.
C22_OneStatusPerRecord ==
  entry = "handler" =>
    /\ \A i \in 1..Len(records) : Cardinality(ReportsOf(i)) <= 1
    /\ \A k \in 1..Len(reports) :
         reports[k].status = "published" =>
           /\ \E j \in 1..Len(attempts) :
                attempts[j].rec = reports[k].rec /\ attempts[j].raised = "none"
           /\ \A j \in 1..Len(batch_item_failures) :
                batch_item_failures[j] # reports[k].rec
    /\ \A j \in 1..Len(attempts) :
         (attempts[j].raised = "none" /\ (attempts[j].rec < rec_idx \/ pc \in {"h_next", "done"}))
           => /\ PublishedFor(attempts[j].rec)
              /\ \A m \in 1..Len(batch_item_failures) :
                   batch_item_failures[m] # attempts[j].rec
    /\ handler_returned =>
         \A i \in 1..Len(records) :
           PublishedFor(i) <=> (\A j \in 1..Len(batch_item_failures) :
                                  batch_item_failures[j] # i)
    /\ exc # "URLError"

\* A batch of two records is handled: the report for the first, processed,
\* record was not delivered, the second failed, and only the second is in
\* batchItemFailures.
C22_Witness ==
  /\ entry = "handler"
  /\ handler_returned
  /\ Len(records) = 2
  /\ Len(reports) = 2
  /\ reports[1] = [rec |-> 1, status |-> "published", delivered |-> FALSE]
  /\ reports[2].status = "failed" /\ reports[2].rec = 2 /\ reports[2].delivered
  /\ batch_item_failures = <<2>>

\* ------------------------------------------------- pyramid loop, call order
\* The while loop of make_ffwd_concat_video has been left.
LoopLeft ==
  \/ returned
  \/ pc \in {"concat_video", "concat_audio", "mux", "final_pad", "ffwd_return"}
  \/ \E k \in 1..Len(calls) : calls[k].site = "concat_video"

\* C23: a sped-up copy of rate 2r is built only when the segment recorded
\* before it (rate r) has actual duration > 1 s, and the loop is left only
\* when the last recorded duration is <= 1 s; so every recorded segment but
\* the last is longer than 1 s, and a last segment of <= 1 s is still
\* padded, concatenated and listed in the returned data.
C23_BuiltIffPreviousLong ==
  entry \in {"make_ffwd_concat_video", "process_video", "_process_video"} =>
    /\ \A i \in 1..(Len(durations) - 1) : durations[i] > TicksPerSecond
    /\ \A k \in 1..Len(calls) :
         calls[k].op = "create_fast_forward_video" =>
           \E j \in 1..Len(rates) :
             /\ 2 * rates[j] = calls[k].arg
             /\ durations[j] > TicksPerSecond
    /\ (LoopLeft /\ durations # <<>>) =>
         /\ durations[Len(durations)] <= TicksPerSecond
         /\ Len(rates) > 1 =>
              /\ Issued("create_fast_forward_video", rates[Len(rates)])
              /\ \E k \in 1..Len(calls) :
                   /\ calls[k].op = "time_pad" /\ calls[k].site = "ffwd_fit"
                   /\ calls[k].rc = 0
                   /\ calls[k].arg = padded_durations[Len(padded_durations)]
    /\ returned =>
         /\ segment_data.R = rates
         /\ segment_data.D = durations
         /\ segment_data.X = padded_durations
         /\ \A k \in 1..Len(calls) :
              calls[k].site \in {"concat_video", "concat_audio"} =>
                calls[k].arg = Len(rates)

\* A run returned three segments or more, the last one shorter than 1 s.
C23_Witness ==
  /\ entry = "make_ffwd_concat_video"
  /\ returned
  /\ Len(segment_data.R) >= 3
  /\ segment_data.D[Len(segment_data.D)] < TicksPerSecond
  /\ segment_data.D[Len(segment_data.D) - 1] > TicksPerSecond

\* Offset of piece i in a track made of pieces of the given lengths.
Offset(lengths, i) == SeqSum(SubSeq(lengths, 1, i - 1))

\* C24: once the audio track is concatenated, the piece of every segment i
\* is exactly padded_durations[i] long, so every audio segment starts at the
\* offset of its video segment, whatever padding_buffer and
\* blank_audio_duration are configured.
C24_AudioPiecesAligned ==
  (entry \in {"make_ffwd_concat_video", "process_video", "_process_video"}
     /\ audio_track # <<>>) =>
    /\ Len(audio_track) = Len(padded_durations)
    /\ \A i \in 1..Len(audio_track) :
         /\ audio_track[i] = padded_durations[i] * TicksPerSecond
         /\ Offset(audio_track, i)
              = Offset([j \in 1..Len(padded_durations) |->
                          padded_durations[j] * TicksPerSecond], i)

\* The sped-up copies requested up to call k.
FfwdVideoCalls(k) == {j \in 1..k : calls[j].op = "create_fast_forward_video"}

\* C25: in the doubling loop rate = 2^doubling_count; the n-th sped-up video
\* is requested at rate 2^n from the source video; the audio of the same
\* iteration is requested with doubling count n, that is n chained
\* atempo=2.0 applications, which speed it up by the same rate 2^n, from the
\* raw audio extracted from the source video, never from an earlier segment.
C25_SameRateFromSource ==
  entry \in {"make_ffwd_concat_video", "process_video", "_process_video"} =>
    /\ pc \in {"ffwd_video", "ffwd_probe", "ffwd_fit", "ffwd_audio", "ffwd_audio_pad",
                "append_segment"} =>
         /\ doubling_count >= 1
         /\ rate = Pow2(doubling_count)
    /\ \A k \in 1..Len(calls) :
         /\ calls[k].op = "create_fast_forward_video" =>
              /\ calls[k].arg = Pow2(Cardinality(FfwdVideoCalls(k)))
              /\ calls[k].src = VideoSrc
         /\ calls[k].op = "create_fast_forward_audio" =>
              /\ FfwdVideoCalls(k) # {}
              /\ calls[k].arg = Cardinality(FfwdVideoCalls(k))
              /\ \E j \in FfwdVideoCalls(k) :
                   /\ \A m \in FfwdVideoCalls(k) : m <= j
                   /\ calls[j].arg = Pow2(calls[k].arg)
                   /\ Tempo(video_duration, calls[k].arg) = video_duration \div calls[j].arg
              /\ calls[k].src = RawAudio
              /\ \E e \in 1..(k - 1) :
                   /\ calls[e].op = "extract_audio" /\ calls[e].rc = 0
                   /\ calls[e].src = VideoSrc

\* The third iteration has requested its audio: three tempo applications.
C25_Witness ==
  /\ entry = "make_ffwd_concat_video"
  /\ pc = "ffwd_audio_pad"
  /\ doubling_count = 3
  /\ calls[Len(calls)].op = "create_fast_forward_audio"
  /\ calls[Len(calls)].arg = 3
  /\ Issued("create_fast_forward_video", 8)

\* The call sites of make_ffwd_concat_video, and those of its segments.
PyramidSites ==
  {"blank_audio", "src_fit", "src_padded", "raw_audio", "ffwd_video", "ffwd_probe",
   "ffwd_fit", "ffwd_audio", "ffwd_audio_pad", "concat_video", "concat_audio", "mux",
   "final_pad"}

SegmentSites ==
  {"src_fit", "src_padded", "raw_audio", "ffwd_video", "ffwd_probe", "ffwd_fit",
   "ffwd_audio", "ffwd_audio_pad"}

\* Positions in the call log of the invocations issued at the given sites.
At(sites) == {k \in 1..Len(calls) : calls[k].site \in sites}

\* The per-segment pads, in order.
SegmentPads == SelectSeq(calls, LAMBDA c : c.op = "time_pad" /\ c.site \in SegmentSites)

\* C26: in a run of make_ffwd_concat_video that returned, every invocation
\* succeeded; the silence clip is generated first; the sped-up copies are
\* built in strictly increasing rate order and the per-segment pads follow
\* the order of the recorded segments; the video concatenation, then the
\* audio concatenation, each of all recorded segments, come after every
\* segment call; the mux comes after both; the only pad with include_audio =
\* true is the final one, which is the last invocation; every per-segment
\* pad has include_audio = false.
C26_CallOrder ==
  returned =>
    /\ \A k \in At(PyramidSites) : calls[k].rc = 0
    /\ Cardinality(At({"blank_audio"})) = 1
    /\ \A b \in At({"blank_audio"}) :
         /\ calls[b].op = "create_blank_audio"
         /\ \A k \in At(PyramidSites) : b <= k
    /\ \A j, k \in At({"ffwd_video"}) : j < k => calls[j].arg < calls[k].arg
    /\ Len(SegmentPads) = Len(rates)
    /\ \A i \in 1..Len(rates) : SegmentPads[i].arg = padded_durations[i]
    /\ Cardinality(At({"concat_video"})) = 1
    /\ Cardinality(At({"concat_audio"})) = 1
    /\ Cardinality(At({"mux"})) = 1
    /\ \A cv \in At({"concat_video"}) :
         /\ calls[cv].arg = Len(rates)
         /\ \A k \in At(SegmentSites) : k < cv
         /\ \A ca \in At({"concat_audio"}) :
              /\ cv < ca
              /\ calls[ca].arg = Len(rates)
              /\ \A mx \in At({"mux"}) :
                   /\ ca < mx
                   /\ \A k \in At({"final_pad"}) : mx < k
    /\ Cardinality({k \in At(PyramidSites) : calls[k].op = "time_pad" /\ calls[k].flag}) = 1
    /\ \A f \in At({"final_pad"}) :
         (calls[f].op = "time_pad") =>
           /\ calls[f].flag
           /\ \A k \in At(PyramidSites) : k <= f
    /\ \A k \in At(SegmentSites) :
         calls[k].op \in {"time_pad", "strip_chapters"} => ~calls[k].flag

\* A run with four segments or more returned.
C26_Witness ==
  /\ entry = "make_ffwd_concat_video"
  /\ returned
  /\ pc = "done"
  /\ Len(rates) >= 4
  /\ calls[Len(calls)].op = "time_pad" /\ calls[Len(calls)].flag

\* ------------------------------------------------------------ montage frames
\* The full-size frame files that exist.
Frames == {f \in fs : f[2] = "frame"}

\* C27: while make_montage runs at most one full-size frame file exists; none
\* exists when the next index is about to be sampled, when the grid is
\* assembled, or after make_montage returned.
C27_OneFrameAtATime ==
  entry \in {"make_montage", "process_video", "_process_video"} =>
    /\ Cardinality(Frames) <= 1
    /\ pc \in {"mt_extract", "mt_assemble"} => Frames = {}
    /\ pc = "mt_retry" => Frames = {}
    /\ mt_returned => Frames = {}

\* Two frames or more were written and turned into thumbnails, and
\* make_montage returned.
C27_Witness ==
  /\ entry = "make_montage"
  /\ mt_returned
  /\ Len(thumbnails) >= 2
  /\ Cardinality({f \in created : f[2] = "frame"}) >= 2

\* The first extraction of every sampled index, in order.
Sampled == SelectSeq(calls, LAMBDA c : c.site = "mt_extract")

C29_ExtraThumbnailFits ==
  mt_returned =>
    /\ cols * rows >= thumb_count + 1
    /\ Cardinality(canvas) <= cols * rows
    /\ \A c \in canvas :
         /\ c.col >= 0 /\ c.col < cols
         /\ c.row >= 0 /\ c.row < rows

\* All thumb_count + 1 frames were pasted and the extra one is in the last row.
C29_Witness ==
  /\ mt_returned
  /\ thumb_count >= 2
  /\ Len(thumbnails) = thumb_count + 1
  /\ \E c \in canvas : c.index = thumb_count /\ c.row = rows - 1 /\ c.col = 0

====
